---- MODULE Spec2Model ----
(***************************************************************************)
(* The Language codec (language.rs) and the Minutes / UnixTimestamp        *)
(* newtypes (conv_newtypes.rs) of steam_review_api.                        *)
(*                                                                         *)
(* All operations of the crate are pure functions.  The state below is the *)
(* value in hand of one evaluation: a variant and the string projected     *)
(* from it (or a raw input string) together with what from_str and         *)
(* Deserialize make of that string, or a wire integer together with the    *)
(* newtype decoded from it and the integer that newtype serializes to.     *)
(* A behaviour is one evaluation, started from the idle state.             *)
(***************************************************************************)
EXTENDS Integers, Sequences, FiniteSets

VARIABLES lang, how, str, parsed, decoded, kind, wire, wrapped, emitted

vars == << lang, how, str, parsed, decoded, kind, wire, wrapped, emitted >>

(***************************************************************************)
(* Result<T, E> and the "nothing computed yet" marker.                     *)
(***************************************************************************)
None == [tag |-> "None"]

Ok(x) == [tag |-> "Ok", val |-> x]

Err(e) == [tag |-> "Err", err |-> e]

(***************************************************************************)
(* enum Language, in declaration order.                                    *)
(***************************************************************************)
LanguageSeq ==
  << "All", "Arabic", "Bulgarian", "SimplifiedChinese", "TraditionalChinese",
     "Czech", "Danish", "Dutch", "English", "Finnish",
     "French", "German", "Greek", "Hungarian", "Italian",
     "Japanese", "Korean", "Norwegian", "Polish", "Portuguese",
     "PortugueseBrazilian", "Romanian", "Russian", "SpanishSpain", "SpanishLatAm",
     "Swedish", "Thai", "Turkish", "Ukrainian", "Vietnamese" >>

Language == { LanguageSeq[i] : i \in DOMAIN LanguageSeq }

AsStrTable ==
  [v \in Language |->
    CASE v = "All" -> "all"
      [] v = "Arabic" -> "arabic"
      [] v = "Bulgarian" -> "bulgarian"
      [] v = "SimplifiedChinese" -> "schinese"
      [] v = "TraditionalChinese" -> "tchinese"
      [] v = "Czech" -> "czech"
      [] v = "Danish" -> "danish"
      [] v = "Dutch" -> "dutch"
      [] v = "English" -> "english"
      [] v = "Finnish" -> "finnish"
      [] v = "French" -> "french"
      [] v = "German" -> "german"
      [] v = "Greek" -> "greek"
      [] v = "Hungarian" -> "hungarian"
      [] v = "Italian" -> "italian"
      [] v = "Japanese" -> "japanese"
      [] v = "Korean" -> "koreana"
      [] v = "Norwegian" -> "norwegian"
      [] v = "Polish" -> "polish"
      [] v = "Portuguese" -> "portuguese"
      [] v = "PortugueseBrazilian" -> "brazilian"
      [] v = "Romanian" -> "romanian"
      [] v = "Russian" -> "russian"
      [] v = "SpanishSpain" -> "spanish"
      [] v = "SpanishLatAm" -> "latam"
      [] v = "Swedish" -> "swedish"
      [] v = "Thai" -> "thai"
      [] v = "Turkish" -> "turkish"
      [] v = "Ukrainian" -> "ukrainian"
      [] v = "Vietnamese" -> "vietnamese"]

LanguageCodeTable ==
  [v \in Language |->
    CASE v = "All" -> "all"
      [] v = "Arabic" -> "ar"
      [] v = "Bulgarian" -> "bg"
      [] v = "SimplifiedChinese" -> "zh-CN"
      [] v = "TraditionalChinese" -> "zh-TW"
      [] v = "Czech" -> "cs"
      [] v = "Danish" -> "da"
      [] v = "Dutch" -> "nl"
      [] v = "English" -> "en"
      [] v = "Finnish" -> "fi"
      [] v = "French" -> "fr"
      [] v = "German" -> "de"
      [] v = "Greek" -> "el el"
      [] v = "Hungarian" -> "hu"
      [] v = "Italian" -> "it"
      [] v = "Japanese" -> "ja"
      [] v = "Korean" -> "ko"
      [] v = "Norwegian" -> "no"
      [] v = "Polish" -> "pl"
      [] v = "Portuguese" -> "pt"
      [] v = "PortugueseBrazilian" -> "pt-BR"
      [] v = "Romanian" -> "ro"
      [] v = "Russian" -> "ru"
      [] v = "SpanishSpain" -> "es"
      [] v = "SpanishLatAm" -> "es-419"
      [] v = "Swedish" -> "sv"
      [] v = "Thai" -> "th"
      [] v = "Turkish" -> "tr"
      [] v = "Ukrainian" -> "uk"
      [] v = "Vietnamese" -> "vn"]

NativeNameTable ==
  [v \in Language |->
    CASE v = "All" -> "All"
      [] v = "Arabic" -> "??????????????"
      [] v = "Bulgarian" -> "?????????????????? ????????"
      [] v = "SimplifiedChinese" -> "????????????"
      [] v = "TraditionalChinese" -> "????????????"
      [] v = "Czech" -> "??e??tina"
      [] v = "Danish" -> "Dansk"
      [] v = "Dutch" -> "Nederlands"
      [] v = "English" -> "English"
      [] v = "Finnish" -> "Suomi"
      [] v = "French" -> "Fran??ais"
      [] v = "German" -> "Deutsch"
      [] v = "Greek" -> "????????????????"
      [] v = "Hungarian" -> "Magyar"
      [] v = "Italian" -> "Italiano"
      [] v = "Japanese" -> "?????????"
      [] v = "Korean" -> "?????????"
      [] v = "Norwegian" -> "Norsk"
      [] v = "Polish" -> "Polski"
      [] v = "Portuguese" -> "Portugu??s"
      [] v = "PortugueseBrazilian" -> "Portugu??s-Brasil"
      [] v = "Romanian" -> "Rom??n??"
      [] v = "Russian" -> "??????????????"
      [] v = "SpanishSpain" -> "Espa??ol-Espa??a"
      [] v = "SpanishLatAm" -> "Espa??ol-Latinoam??rica"
      [] v = "Swedish" -> "Svenska"
      [] v = "Thai" -> "?????????"
      [] v = "Turkish" -> "T??rk??e"
      [] v = "Ukrainian" -> "????????????????????"
      [] v = "Vietnamese" -> "Ti???ng Vi???t"]

FromStrArms ==
  << [pats |-> << "all" >>, lang |-> "All"],
     [pats |-> << "arabic", "??????????????", "ar" >>, lang |-> "Arabic"],
     [pats |-> << "bulgarian", "?????????????????? ????????", "bg" >>, lang |-> "Bulgarian"],
     [pats |-> << "schinese", "????????????", "zh-CN" >>, lang |-> "SimplifiedChinese"],
     [pats |-> << "tchinese", "????????????", "zh-TW" >>, lang |-> "TraditionalChinese"],
     [pats |-> << "czech", "??e??tina", "cs" >>, lang |-> "Czech"],
     [pats |-> << "danish", "Dansk", "da" >>, lang |-> "Danish"],
     [pats |-> << "dutch", "Nederlands", "nl" >>, lang |-> "Dutch"],
     [pats |-> << "english", "English", "en" >>, lang |-> "English"],
     [pats |-> << "finnish", "Suomi", "fl" >>, lang |-> "Finnish"],
     [pats |-> << "french", "Fran??ais", "fr" >>, lang |-> "French"],
     [pats |-> << "german", "Deutsch", "de" >>, lang |-> "German"],
     [pats |-> << "greek", "????????????????", "el" >>, lang |-> "Greek"],
     [pats |-> << "hungarian", "Magyar", "hu" >>, lang |-> "Hungarian"],
     [pats |-> << "italian", "Italiano", "it" >>, lang |-> "Italian"],
     [pats |-> << "japanese", "?????????", "ja" >>, lang |-> "Japanese"],
     [pats |-> << "koreana", "?????????", "ko" >>, lang |-> "Korean"],
     [pats |-> << "norwegian", "Norsk", "no" >>, lang |-> "Norwegian"],
     [pats |-> << "polish", "Polski", "pl" >>, lang |-> "Polish"],
     [pats |-> << "portuguese", "Portugu??s", "pt" >>, lang |-> "Portuguese"],
     [pats |-> << "brazilian", "Portugu??s-Brasil", "pt-BR" >>, lang |-> "PortugueseBrazilian"],
     [pats |-> << "romanian", "Rom??n??", "ro" >>, lang |-> "Romanian"],
     [pats |-> << "russian", "??????????????", "ru" >>, lang |-> "Russian"],
     [pats |-> << "spanish", "Espa??ol-Espa??a", "es" >>, lang |-> "SpanishSpain"],
     [pats |-> << "latam", "Espa??ol-Latinoam??rica", "es-419" >>, lang |-> "SpanishLatAm"],
     [pats |-> << "swedish", "Svenska", "sv" >>, lang |-> "Swedish"],
     [pats |-> << "thai", "?????????", "th" >>, lang |-> "Thai"],
     [pats |-> << "turkish", "T??rk??e", "tr" >>, lang |-> "Turkish"],
     [pats |-> << "ukrainian", "????????????????????", "uk" >>, lang |-> "Ukrainian"],
     [pats |-> << "vietnamese", "Ti???ng Vi???t", "vn" >>, lang |-> "Vietnamese"] >>

\* LangParseError is a unit struct: it carries no payload.
LangParseError == [type |-> "LangParseError"]

\* impl Display for LangParseError: the fixed message.
LangParseErrorDisplay(e) ==
  "Tried to a parse an unlisted language. Please report! Valve probably added in new languages since I last updated."

\* as_str with the slug of PortugueseBrazilian written as Portuguese's.
as_str_dup(v) ==
  IF v = "PortugueseBrazilian" THEN "portuguese" ELSE AsStrTable[v]

\* Language::as_str
as_str(v) == AsStrTable[v]

\* Language::language_code
language_code(v) == LanguageCodeTable[v]

\* Language::native_name
native_name(v) == NativeNameTable[v]

\* Display rendering the native name instead of the wire form.
Display_native(v) == native_name(v)

\* impl Display for Language: write!(f, "{}", self.as_str())
Display(v) == as_str(v)

\* A Rust match over string patterns: the arms are tried top to bottom, an
\* arm matches when one of its `|` alternatives equals the scrutinee, the
\* first matching arm is taken, `_` catches what is left.
MatchingArms(arms, s) ==
  { i \in DOMAIN arms : \E j \in DOMAIN arms[i].pats : arms[i].pats[j] = s }

FirstArm(arms, s) ==
  CHOOSE i \in MatchingArms(arms, s) : \A k \in MatchingArms(arms, s) : i <= k

MatchStr(arms, s) ==
  IF MatchingArms(arms, s) = {}
    THEN Err(LangParseError)
    ELSE Ok(arms[FirstArm(arms, s)].lang)

\* from_str with Korean's wire form spelled "korean" instead of "koreana".
from_str_korean(s) ==
  MatchStr([FromStrArms EXCEPT ![17].pats = << "korean", @[2], @[3] >>], s)

\* str::to_lowercase on the inputs that hold upper-case letters.
ToLowercase(s) ==
  CASE s = "ENGLISH" -> "english"
    [] s = "eNGLISH" -> "english"
    [] s = "English" -> "english"
    [] s = "ALL" -> "all"
    [] s = "All" -> "all"
    [] s = "EN" -> "en"
    [] OTHER -> s

\* from_str matching the lower-cased input against the wire forms and codes.
from_str_ignore_case(s) == MatchStr(FromStrArms, ToLowercase(s))

\* <Language as FromStr>::from_str
from_str(s) == MatchStr(FromStrArms, s)

\* serde::de::Error::custom(e): the decoder's own error type, built from the
\* Display text of e.
Custom(e) == [type |-> "de::Error", custom |-> LangParseErrorDisplay(e)]

\* deserialize handing the bare LangParseError on, without map_err.
Deserialize_bare(s) == from_str(s)

\* <Language as Deserialize>::deserialize, given the wire string s:
\* s.parse::<Language>().map_err(D::Error::custom)
Deserialize(s) ==
  LET r == from_str(s)
  IN  IF r.tag = "Ok" THEN r ELSE Err(Custom(r.err))

\* <Language as Serialize>::serialize: serializer.serialize_str(self.as_str())
Serialize(v) == as_str(v)

(***************************************************************************)
(* Wire integers.  TLC's integers are narrower than u32 and i64, so a      *)
(* 64-bit wire integer is kept as four 16-bit limbs, most significant      *)
(* first, in two's complement; a u32 is two limbs.  The limbs explored are *)
(* those within MaxSmall of 0, of the sign boundary 2^15 and of 2^16 - 1.  *)
(***************************************************************************)
MaxSmall == 1

Limbs ==
  (0 .. MaxSmall) \cup ((2^15 - 1 - MaxSmall) .. (2^15 + MaxSmall))
                  \cup ((2^16 - 1 - MaxSmall) .. (2^16 - 1))

WireInts == [1..4 -> Limbs]

\* let num: u32 = Deserialize::deserialize(deserializer)?  -- the integer
\* decoder accepts exactly the wire integers in 0 ..= u32::MAX.
deserialize_u32(w) ==
  IF w[1] = 0 /\ w[2] = 0
    THEN Ok(<< w[3], w[4] >>)
    ELSE Err([type |-> "de::Error", custom |-> "invalid value: expected u32"])

\* let num: i64 = Deserialize::deserialize(deserializer)?  -- every 64-bit
\* wire integer is an i64.
deserialize_i64(w) == Ok(w)

\* serializer.serialize_u32(n): n zero-extended to the wire's width.
serialize_u32(n) == << 0, 0, n[1], n[2] >>

\* serializer.serialize_i64(n)
serialize_i64(n) == n

\* pub struct Minutes(pub u32)
Minutes(n) == [type |-> "Minutes", f0 |-> n]

\* pub struct UnixTimestamp(pub i64)
UnixTimestamp(n) == [type |-> "UnixTimestamp", f0 |-> n]

\* <Minutes as Deserialize>::deserialize
MinutesDeserialize(w) ==
  LET num == deserialize_u32(w)
  IN  IF num.tag = "Err" THEN num ELSE Ok(Minutes(num.val))

\* serialize going through i32 (self.0 as i32): the sign bit of the u32 is
\* extended over the upper half of the wire integer.
MinutesSerialize_i32(m) ==
  IF m.f0[1] >= 2^15
    THEN Ok(<< 2^16 - 1, 2^16 - 1, m.f0[1], m.f0[2] >>)
    ELSE Ok(<< 0, 0, m.f0[1], m.f0[2] >>)

\* <Minutes as Serialize>::serialize
MinutesSerialize(m) == Ok(serialize_u32(m.f0))

\* <UnixTimestamp as Deserialize>::deserialize
UnixTimestampDeserialize(w) ==
  LET num == deserialize_i64(w)
  IN  IF num.tag = "Err" THEN num ELSE Ok(UnixTimestamp(num.val))

\* <UnixTimestamp as Serialize>::serialize
UnixTimestampSerialize(t) == Ok(serialize_i64(t.f0))

(***************************************************************************)
(* The strings handed to from_str and Deserialize: every projection of     *)
(* every variant, every pattern of from_str, and strings near them.        *)
(***************************************************************************)
Projections ==
  { as_str(v) : v \in Language } \cup { language_code(v) : v \in Language }
                                 \cup { native_name(v) : v \in Language }

Patterns ==
  UNION { { FromStrArms[i].pats[j] : j \in DOMAIN FromStrArms[i].pats } :
          i \in DOMAIN FromStrArms }

ExtraInputs ==
  { "meow talk", "ENGLISH", "eNGLISH", "ALL", "", " english", "english ",
    "korean", "el  el", "EN", "zh-cn", "?" }

InputStrings == Projections \cup Patterns \cup ExtraInputs

NoLang == "(no variant)"

(***************************************************************************)
(* State machine.                                                          *)
(***************************************************************************)
Init ==
  /\ lang = NoLang
  /\ how = "idle"
  /\ str = ""
  /\ parsed = None
  /\ decoded = None
  /\ kind = "none"
  /\ wire = << >>
  /\ wrapped = None
  /\ emitted = None

\* Nothing has been evaluated yet.
Idle == how = "idle" /\ kind = "none"

\* A string s obtained from variant v by projection h is now in hand.
Project(v, h, s) ==
  /\ lang' = v
  /\ how' = h
  /\ str' = s
  /\ parsed' = None
  /\ decoded' = None
  /\ UNCHANGED << kind, wire, wrapped, emitted >>

DoAsStr ==
  /\ Idle
  /\ \E v \in Language : Project(v, "as_str", as_str(v))

DoLanguageCode ==
  /\ Idle
  /\ \E v \in Language : Project(v, "language_code", language_code(v))

DoNativeName ==
  /\ Idle
  /\ \E v \in Language : Project(v, "native_name", native_name(v))

DoDisplay ==
  /\ Idle
  /\ \E v \in Language : Project(v, "display", Display(v))

DoSerialize ==
  /\ Idle
  /\ \E v \in Language : Project(v, "serialize", Serialize(v))

\* A string from outside (a caller's literal, a response field).
DoInput ==
  /\ Idle
  /\ \E s \in InputStrings : Project(NoLang, "input", s)

\* str.parse::<Language>() on the string in hand.
DoFromStr ==
  /\ how # "idle"
  /\ parsed = None
  /\ parsed' = from_str(str)
  /\ UNCHANGED << lang, how, str, decoded, kind, wire, wrapped, emitted >>

\* Language::deserialize on the string in hand.
DoDeserialize ==
  /\ how # "idle"
  /\ decoded = None
  /\ decoded' = Deserialize(str)
  /\ UNCHANGED << lang, how, str, parsed, kind, wire, wrapped, emitted >>

DoMinutesDeserialize ==
  /\ Idle
  /\ \E w \in WireInts :
       /\ wire' = w
       /\ wrapped' = MinutesDeserialize(w)
  /\ kind' = "Minutes"
  /\ emitted' = None
  /\ UNCHANGED << lang, how, str, parsed, decoded >>

DoMinutesSerialize ==
  /\ kind = "Minutes"
  /\ wrapped.tag = "Ok"
  /\ emitted = None
  /\ emitted' = MinutesSerialize(wrapped.val)
  /\ UNCHANGED << lang, how, str, parsed, decoded, kind, wire, wrapped >>

DoUnixTimestampDeserialize ==
  /\ Idle
  /\ \E w \in WireInts :
       /\ wire' = w
       /\ wrapped' = UnixTimestampDeserialize(w)
  /\ kind' = "UnixTimestamp"
  /\ emitted' = None
  /\ UNCHANGED << lang, how, str, parsed, decoded >>

DoUnixTimestampSerialize ==
  /\ kind = "UnixTimestamp"
  /\ wrapped.tag = "Ok"
  /\ emitted = None
  /\ emitted' = UnixTimestampSerialize(wrapped.val)
  /\ UNCHANGED << lang, how, str, parsed, decoded, kind, wire, wrapped >>

Next ==
  \/ DoAsStr
  \/ DoLanguageCode
  \/ DoNativeName
  \/ DoDisplay
  \/ DoSerialize
  \/ DoInput
  \/ DoFromStr
  \/ DoDeserialize
  \/ DoMinutesDeserialize
  \/ DoMinutesSerialize
  \/ DoUnixTimestampDeserialize
  \/ DoUnixTimestampSerialize

Spec == Init /\ [][Next]_vars

(***************************************************************************)
(* Properties.                                                             *)
(***************************************************************************)
\* The first variant, in declaration order, whose projection f is s.
FirstVariant(f(_), s) ==
  LanguageSeq[CHOOSE i \in DOMAIN LanguageSeq :
                /\ f(LanguageSeq[i]) = s
                /\ \A k \in 1 .. (i - 1) : f(LanguageSeq[k]) # s]

\* C1: for every variant v, parsing the wire form of v gives Ok(v):
\* from_str(as_str(v)) = v.
C1_WireRoundTrip ==
  (how = "as_str" /\ parsed # None) => parsed = Ok(lang)

C1_Witness ==
  how = "as_str" /\ lang = "Korean" /\ str = "koreana" /\ parsed = Ok("Korean")

\* C2: for every variant v, parsing the short code of v gives Ok(v), a short
\* code shared by several variants giving the first of them in declaration
\* order.
C2_ShortCodeParse ==
  (how = "language_code" /\ parsed # None)
    => parsed = Ok(FirstVariant(language_code, str))

\* C3: for every variant v, parsing the native name of v gives Ok(v).
C3_NativeNameParse ==
  (how = "native_name" /\ parsed # None) => parsed = Ok(lang)

\* C4: from_str(s) is Err(LangParseError) if and only if s equals no wire
\* form, native name or short code of any variant; "meow talk" fails.
C4_FailsIffUnknown ==
  parsed # None =>
    /\ (parsed = Err(LangParseError)) <=> (str \notin Projections)
    /\ (str = "meow talk") => (parsed = Err(LangParseError))

\* C5 as claimed: from_str("English") fails although from_str("english")
\* gives English.
C5_EnglishCapitalFails ==
  parsed # None =>
    /\ (str = "English") => (parsed = Err(LangParseError))
    /\ (str = "english") => (parsed = Ok("English"))

\* C5 as amended: matching is exact, so from_str("ENGLISH") fails although
\* from_str("english") gives English; from_str("English") gives English too,
\* "English" being the native name of English.
C5_ExactMatch ==
  parsed # None =>
    /\ (str = "ENGLISH") => (parsed = Err(LangParseError))
    /\ (str = "english") => (parsed = Ok("English"))
    /\ (str = "English") => (parsed = Ok("English"))

C5_Witness ==
  how = "input" /\ str = "ENGLISH" /\ parsed = Err(LangParseError)

\* C6: the short code of Greek is exactly "el el", and from_str("el el")
\* gives Ok(Greek).
C6_GreekShortCode ==
  /\ language_code("Greek") = "el el"
  /\ (str = "el el" /\ parsed # None) => parsed = Ok("Greek")

\* C7: deserializing a Language from a wire string agrees with from_str on
\* that string: the same variant when from_str succeeds, and when it fails
\* the decoder's custom error, not the bare LangParseError.
C7_DeserializeIsParse ==
  (parsed # None /\ decoded # None) =>
    /\ (parsed.tag = "Ok") => (decoded = parsed)
    /\ (parsed.tag = "Err") =>
         /\ decoded.tag = "Err"
         /\ decoded.err # LangParseError
         /\ decoded.err = Custom(LangParseError)
    /\ (str = "english") => (decoded = Ok("English"))
    /\ (str = "meow talk") => (decoded.tag = "Err")

C7_Witness ==
  /\ how = "input"
  /\ str = "meow talk"
  /\ parsed = Err(LangParseError)
  /\ decoded = Err(Custom(LangParseError))

\* C8: for every variant v, the Display rendering and the wire serialization
\* of v are exactly as_str(v), not another projection of v: the string
\* differs from the native name of v, and from the short code of v for every
\* variant whose short code is not its wire form (All's is: both are "all").
C8_RenderingIsWireForm ==
  (how \in {"display", "serialize"}) =>
    /\ str = as_str(lang)
    /\ str # native_name(lang)
    /\ (lang # "All") => (str # language_code(lang))

C8_Witness ==
  how = "display" /\ lang = "SpanishLatAm" /\ str = "latam"

\* C9: the wire form is injective: two different variants never have the
\* same as_str.
C9_WireFormInjective ==
  (how = "as_str") => \A w \in Language : (as_str(w) = str) => (w = lang)

C9_Witness ==
  how = "as_str" /\ lang = "PortugueseBrazilian" /\ str = "brazilian"

\* C10: every wire integer in the u32 range deserializes into Minutes and
\* serializes back unchanged, 0 and u32::MAX included; every 64-bit wire
\* integer does so through UnixTimestamp, negative ones included.
C10_ScalarRoundTrip ==
  /\ (kind = "Minutes" /\ wire[1] = 0 /\ wire[2] = 0) =>
       /\ wrapped = Ok(Minutes(<< wire[3], wire[4] >>))
       /\ (emitted # None) => (emitted = Ok(wire))
  /\ (kind = "UnixTimestamp") =>
       /\ wrapped = Ok(UnixTimestamp(wire))
       /\ (emitted # None) => (emitted = Ok(wire))

C10_Witness ==
  /\ kind = "Minutes"
  /\ wire = << 0, 0, 2^16 - 1, 2^16 - 1 >>
  /\ emitted = Ok(wire)

====
